---- MODULE Spec2Model ----
(***************************************************************************)
(* The scrape pipeline of the Outline wiki exporter: Exporter.Collect,     *)
(* fetchAll, Exporter.fetch, Exporter.doFetch and Exporter.shouldPaginate. *)
(*                                                                         *)
(* One step of the model is one request attempt (one doFetch call) with    *)
(* the code that follows it up to the next request: the retry decision of  *)
(* fetch, the pagination decision of fetchAll and the bookkeeping of       *)
(* Collect.  The upstream server and the HTTP library are the environment: *)
(* each attempt draws its outcome from Outcomes.                           *)
(*                                                                         *)
(* Strings that the code inspects are sequences: a path is a sequence of   *)
(* characters, an error text is a sequence of words.                       *)
(***************************************************************************)
EXTENDS Integers, Sequences, FiniteSets, Bags, TLC

\* ------------------------------------------------------------------ bounds
\* A new scrape cycle starts only while the error counter is below MaxErrors.
MaxErrors == 2
\* config.PageLimit, the configured page size (100 by default).
PageLimit == 2
\* Reading of the clock at sample emission, in seconds.
Clock == 50
\* Largest elapsed time of a cycle, in seconds.
MaxDuration == 1

\* --------------------------------------------------------- program constants
maxRetries == 3
baseDelay == 1

Nil == <<"nil">>

\* ------------------------------------------------------------------- strings
\* strings.TrimSpace: drops leading and trailing white space.
RECURSIVE TrimLeft(_)
TrimLeft(s) ==
    IF s # <<>> /\ Head(s) = " " THEN TrimLeft(Tail(s)) ELSE s

RECURSIVE TrimRight(_)
TrimRight(s) ==
    IF s # <<>> /\ s[Len(s)] = " " THEN TrimRight(SubSeq(s, 1, Len(s) - 1)) ELSE s

TrimSpace(s) == TrimRight(TrimLeft(s))

\* strings.Contains(text, word) on a text given as its sequence of words;
\* the match is case-sensitive, as two words are equal only if identical.
Contains(text, word) == \E i \in 1..Len(text) : text[i] = word

\* --------------------------------------------------------------------- paths
CollectionsPath == <<"/", "c">>
DocumentsPath == <<"/", "d">>
UsersPath == <<"/", "u">>

Kinds == <<"collections", "documents", "users">>

StartPath(kind) ==
    CASE kind = "collections" -> CollectionsPath
      [] kind = "documents" -> DocumentsPath
      [] kind = "users" -> UsersPath

\* Continuation paths: two well-formed ones, the empty one, a blank one.
Page2Path == <<"/", "2">>
Page3Path == <<"/", "3">>
EmptyPath == <<>>
BlankPath == <<" ">>

\* ------------------------------------------------------------------ entities
\* The records the server holds for each kind, with the fields Collect reads.
Collection(n) ==
    [ID |-> <<"c", n>>, Name |-> <<"C", n>>, CreatedAt |-> n]

Document(n) ==
    [ID |-> <<"d", (n + 1) \div 2>>, CollectionId |-> <<"c", n>>,
     Revision |-> n, Views |-> 10 * n, Text |-> [i \in 1..n |-> "x"],
     CreatedAt |-> n,
     UpdatedAt |-> n + 1]

User(n) ==
    [ID |-> <<"u", n>>, Name |-> <<"U", n>>, CreatedAt |-> n,
     LastActiveAt |-> n + 1]

Entity(kind, n) ==
    CASE kind = "collections" -> Collection(n)
      [] kind = "documents" -> Document(n)
      [] kind = "users" -> User(n)

\* The server answers a page request with the first n records of the kind.
PageData(kind, n) == [i \in 1..n |-> Entity(kind, i)]

\* The limits the server reports in pagination.limit.
Limits == {PageLimit - 1, PageLimit}

\* apiResp[T]: the decoded pages a request of the kind can be answered with
\* by a server srv whose pages have the item counts srv.sizes and name the
\* continuation paths srv.paths or the kind's starting path.
Pages(kind, srv) ==
    [Data : {PageData(kind, n) : n \in srv.sizes},
     Pagination : [Limit : Limits, NextPath : srv.paths \cup {StartPath(kind)}]]

NoPage == [Data |-> <<>>, Pagination |-> [Limit |-> 0, NextPath |-> <<>>]]

\* --------------------------------------------------------------- environment
\* What one request attempt can meet.  stage is the statement of doFetch
\* that the attempt reaches: client.Do fails ("do"), io.ReadAll fails
\* ("read"), the status is not 200 ("status"), json.Unmarshal fails
\* ("decode"), or the page is decoded ("ok").  cause is the condition that
\* made it fail, status the response's status code as printed by %d, and
\* text the words of the underlying error (for a non-200 status: of the
\* response body).
Failure(stage, cause, status, text) ==
    [stage |-> stage, cause |-> cause, status |-> status, text |-> text,
     page |-> NoPage]

\* The connection is closed before a response arrives.
DoEOF == Failure("do", "truncation", "", <<"EOF">>)
\* The dial times out.
DoDialTimeout == Failure("do", "timeout", "", <<"dial", "tcp:", "i/o", "timeout">>)
\* http.Client.Timeout (config.ScrapeTimeout) expires.
DoClientTimeout ==
    Failure("do", "timeout", "",
            <<"context", "deadline", "exceeded", "(Client.Timeout", "exceeded",
              "while", "awaiting", "headers)">>)
DoRefused == Failure("do", "refused", "", <<"connect:", "connection", "refused">>)
ReadReset == Failure("read", "read", "200", <<"connection", "reset", "by", "peer">>)
StatusNotFound == Failure("status", "status", "404", <<"Not", "Found">>)
StatusGatewayTimeout == Failure("status", "status", "504", <<"Gateway", "timeout">>)
DecodeError ==
    Failure("decode", "decode", "200", <<"unexpected", "end", "of", "JSON", "input">>)

Failures ==
    {DoEOF, DoDialTimeout, DoClientTimeout, DoRefused, ReadReset,
     StatusNotFound, StatusGatewayTimeout, DecodeError}

Success(page) ==
    [stage |-> "ok", cause |-> "none", status |-> "200", text |-> <<>>, page |-> page]

Outcomes(kind, srv) == Failures \cup {Success(p) : p \in Pages(kind, srv)}

\* A server with full and empty pages and one continuation path.
PlainServer ==
    [sizes |-> {0, PageLimit}, paths |-> {EmptyPath, BlankPath, Page2Path}]

\* A server that also has short pages and a second continuation path.
PagingServer ==
    [sizes |-> {0, PageLimit - 1, PageLimit},
     paths |-> {EmptyPath, BlankPath, Page2Path, Page3Path}]

AllOutcomes == UNION {Outcomes(Kinds[i], PagingServer) : i \in 1..Len(Kinds)}

\* ------------------------------------------------------------------- doFetch
\* The error doFetch returns for an outcome (Nil when the page is decoded).
doFetch(out) ==
    IF out.stage = "do" THEN <<"do", "request:">> \o out.text
    ELSE IF out.stage = "read" THEN <<"read", "body:">> \o out.text
    ELSE IF out.status # "200" THEN <<"status", out.status, ":">> \o out.text
    ELSE IF out.stage = "decode" THEN out.text
    ELSE Nil

\* The retry condition of fetch for the error of attempt number attempt.
Retryable(attempt, err) ==
    attempt < maxRetries /\ (Contains(err, "EOF") \/ Contains(err, "timeout"))

\* The error of the return statement after the retry loop of fetch.
MaxRetriesExceeded == <<"max", "retries", "exceeded">>

\* 2^n, for the shift 1 << n.
RECURSIVE Pow2(_)
Pow2(n) == IF n = 0 THEN 1 ELSE 2 * Pow2(n - 1)

\* Mutant of Delay: the delay grows by baseDelay with each retry.
DelayLinear(attempt) == IF attempt > 0 THEN baseDelay * attempt ELSE 0

\* The sleep of fetch before attempt number attempt.
Delay(attempt) == IF attempt > 0 THEN baseDelay * Pow2(attempt - 1) ELSE 0

\* ------------------------------------------------------------ shouldPaginate
\* Mutant of shouldPaginate: the item count is not compared with the limit.
shouldPaginateAnyCount(pagination, itemCount) ==
    pagination.NextPath # <<>> /\ TrimSpace(pagination.NextPath) # <<>>

shouldPaginate(pagination, itemCount) ==
    LET hasNext == pagination.NextPath # <<>>
        nonEmpty == TrimSpace(pagination.NextPath) # <<>>
        exactLimit == itemCount = pagination.Limit
    IN hasNext /\ nonEmpty /\ exactLimit

\* --------------------------------------------------------------------- state
VARIABLES
    pc,             \* where Collect is: "idle", "fetching", "returned"
    cur,            \* index in Kinds of the entity kind being fetched
    success,        \* Collect's success flag
    err,            \* Collect's err: what the last fetchAll returned
    results,        \* Collect's collections, documents and users
    scrapeErrorsTotal,      \* the counter e.scrapeErrorsTotal
    scrapeDurationSeconds,  \* the gauge e.scrapeDurationSeconds
    fa,             \* the locals of the running fetchAll
    ft,             \* the locals of the running fetch: path, body, attempt
    ch,             \* the samples sent on ch by the last cycle (a bag)
    server,         \* the upstream server: the pages it can answer with
    \* history
    requests,       \* the fetch calls of this fetchAll: path and body of each
    pages,          \* the pages this fetchAll decoded, in order
    call,           \* the attempts of the running fetch call, or of the one
                    \* that failed: the delays slept, the causes met
    last,           \* the outcome of the latest attempt
    events,         \* the fetchAll calls of this cycle: the start of each and
                    \* its return, with the number of pages it had decoded
    failedFetches,  \* number of fetchAll calls that returned a failure, ever
    errorsAtStart,  \* the value of the error counter when the cycle started
    config,         \* the Config of the exporter: its OutlineAPIKey
    fetched,        \* the items of the pages decoded in this cycle, by kind
    logged,         \* the lines logged since the running (or the latest)
                    \* fetchAll began, of these: the debug lines "Fetch
                    \* <path>", "Retryable error: <err>" (without the
                    \* words of err) and "Next: <path>", and the line
                    \* "Warning: <n> duplicate documents"
    collects        \* the clock and the Collect calls that run concurrently:
                    \* of each its position, its startTime, the number of
                    \* its fetchAll calls that returned and that failed,
                    \* the duration it measured and the sample it sent

vars ==
    <<pc, cur, success, err, results, scrapeErrorsTotal,
      scrapeDurationSeconds, fa, ft, ch, server, requests, pages, call,
      last, events, failedFetches, errorsAtStart, config, fetched,
      logged, collects>>

\* at is "first" until the first page is decoded, then "loop".
NoFetchAll ==
    [at |-> "none", path |-> <<>>, allItems |-> <<>>, pageNumber |-> 0,
     nextPath |-> <<>>, seenPaths |-> {}]

\* The payload of the first request: {"limit": PageLimit, "offset": 0}.
FirstBody == [limit |-> PageLimit, offset |-> 0]
\* The payload of a continuation request, {}: no limit and no offset.
EmptyBody == [limit |-> -1, offset |-> -1]

NoFetch == [path |-> <<>>, body |-> EmptyBody, attempt |-> 0]

NoCall == [delays |-> <<>>, causes |-> {}]

NoOutcome == [stage |-> "none", cause |-> "none", status |-> ""]

NoResults == [k \in {Kinds[i] : i \in 1..Len(Kinds)} |-> <<>>]

\* The scrapes in whose goroutines the registry calls Collect concurrently.
Scrapers == {"a", "b"}

NoCollects ==
    [now |-> 0,
     of |-> [g \in Scrapers |->
                [at |-> "idle", startTime |-> 0, fetches |-> 0,
                 failed |-> 0, elapsed |-> 0, sent |-> 0]]]

\* The exporter newExporter makes from a Config, before the first scrape.
newExporter(cfg) ==
    /\ collects = NoCollects
    /\ config = cfg
    /\ fetched = NoResults
    /\ logged = <<>>
    /\ pc = "idle"
    /\ cur = 0
    /\ success = TRUE
    /\ err = Nil
    /\ results = NoResults
    /\ scrapeErrorsTotal = 0
    /\ scrapeDurationSeconds = 0
    /\ fa = NoFetchAll
    /\ ft = NoFetch
    /\ ch = EmptyBag
    /\ requests = <<>>
    /\ pages = <<>>
    /\ call = NoCall
    /\ last = NoOutcome
    /\ events = <<>>
    /\ failedFetches = 0
    /\ errorsAtStart = 0

\* The exporter of a process started with an API key and without DEBUG.
Created == newExporter([OutlineAPIKey |-> <<"k">>, Debug |-> FALSE])

Init == Created /\ server = PlainServer

\* ------------------------------------------------------------------ fetchAll
\* What e.debug adds to the log: the line when config.Debug, else nothing.
debug(line) == IF config.Debug THEN <<line>> ELSE <<>>

\* Mutant of BeginFetchAll: the first request has an empty payload too.
BeginFetchAllEmptyBody(path) ==
    /\ fa' = [at |-> "first", path |-> path, allItems |-> <<>>,
              pageNumber |-> 0, nextPath |-> <<>>, seenPaths |-> {}]
    /\ ft' = [path |-> path, body |-> EmptyBody, attempt |-> 0]
    /\ requests' = <<[path |-> path, body |-> EmptyBody]>>
    /\ pages' = <<>>
    /\ call' = NoCall
    /\ last' = NoOutcome
    /\ logged' = debug(<<"Fetch">> \o path)

\* fetchAll from its entry to its first fetch call.
BeginFetchAll(path) ==
    /\ fa' = [at |-> "first", path |-> path, allItems |-> <<>>,
              pageNumber |-> 0, nextPath |-> <<>>, seenPaths |-> {}]
    /\ ft' = [path |-> path, body |-> FirstBody, attempt |-> 0]
    /\ requests' = <<[path |-> path, body |-> FirstBody]>>
    /\ pages' = <<>>
    /\ call' = NoCall
    /\ last' = NoOutcome
    /\ logged' = debug(<<"Fetch">> \o path)

\* Mutant of AfterPage: the page's items replace the items gathered so far.
AfterPageReplacing(f, page) ==
    LET cont == shouldPaginate(page.Pagination, Len(page.Data))
        np == page.Pagination.NextPath
        seen == IF f.at = "first" THEN {f.path} ELSE f.seenPaths
        enter == cont /\ np # <<>> /\ TrimSpace(np) # <<>> /\ np \notin seen
    IN [call |-> enter,
        fa |-> [at |-> "loop", path |-> f.path, allItems |-> page.Data,
                pageNumber |-> f.pageNumber + 1,
                nextPath |-> IF cont THEN np ELSE f.nextPath,
                seenPaths |-> IF enter THEN seen \cup {np}
                              ELSE IF cont \/ f.at = "loop" THEN seen ELSE {}]]

\* Mutant of AfterPage: no set of visited paths is kept.
AfterPageUnguarded(f, page) ==
    LET cont == shouldPaginate(page.Pagination, Len(page.Data))
        np == page.Pagination.NextPath
        enter == cont /\ np # <<>> /\ TrimSpace(np) # <<>>
    IN [call |-> enter,
        fa |-> [at |-> "loop", path |-> f.path,
                allItems |-> f.allItems \o page.Data,
                pageNumber |-> f.pageNumber + 1,
                nextPath |-> IF cont THEN np ELSE f.nextPath,
                seenPaths |-> {}]]

\* Mutant of AfterPage: the starting path is not put into seenPaths.
AfterPageForgettingStart(f, page) ==
    LET items == f.allItems \o page.Data
        cont == shouldPaginate(page.Pagination, Len(page.Data))
        np == page.Pagination.NextPath
        seen == IF f.at = "first" THEN {} ELSE f.seenPaths
        enter == cont /\ np # <<>> /\ TrimSpace(np) # <<>> /\ np \notin seen
    IN [call |-> enter,
        fa |-> [at |-> "loop", path |-> f.path, allItems |-> items,
                pageNumber |-> f.pageNumber + 1,
                nextPath |-> IF cont THEN np ELSE f.nextPath,
                seenPaths |-> IF enter THEN seen \cup {np}
                              ELSE IF cont \/ f.at = "loop" THEN seen ELSE {}]]

\* Mutant of AfterPage: the path is looked up in seenPaths before the items
\* of the page are appended.
AfterPageDroppingRepeated(f, page) ==
    LET cont == shouldPaginate(page.Pagination, Len(page.Data))
        np == page.Pagination.NextPath
        seen == IF f.at = "first" THEN {f.path} ELSE f.seenPaths
        items == IF cont /\ np \in seen THEN f.allItems
                 ELSE f.allItems \o page.Data
        enter == cont /\ np # <<>> /\ TrimSpace(np) # <<>> /\ np \notin seen
    IN [call |-> enter,
        fa |-> [at |-> "loop", path |-> f.path, allItems |-> items,
                pageNumber |-> f.pageNumber + 1,
                nextPath |-> IF cont THEN np ELSE f.nextPath,
                seenPaths |-> IF enter THEN seen \cup {np}
                              ELSE IF cont \/ f.at = "loop" THEN seen ELSE {}]]

\* Mutant of AfterPage: a full page is followed whatever path it names.
AfterPageAnyPath(f, page) ==
    LET items == f.allItems \o page.Data
        cont == Len(page.Data) = page.Pagination.Limit
        np == page.Pagination.NextPath
        seen == IF f.at = "first" THEN {f.path} ELSE f.seenPaths
        enter == cont /\ np \notin seen
    IN [call |-> enter,
        fa |-> [at |-> "loop", path |-> f.path, allItems |-> items,
                pageNumber |-> f.pageNumber + 1,
                nextPath |-> IF cont THEN np ELSE f.nextPath,
                seenPaths |-> IF enter THEN seen \cup {np}
                              ELSE IF cont \/ f.at = "loop" THEN seen ELSE {}]]

\* fetchAll from a decoded page to its next fetch call (call = TRUE) or to
\* its return (call = FALSE); fa is the value of its locals at that point.
AfterPage(f, page) ==
    LET items == f.allItems \o page.Data
        cont == shouldPaginate(page.Pagination, Len(page.Data))
        np == page.Pagination.NextPath
        seen == IF f.at = "first" THEN {f.path} ELSE f.seenPaths
        enter == cont /\ np # <<>> /\ TrimSpace(np) # <<>> /\ np \notin seen
    IN [call |-> enter,
        fa |-> [at |-> "loop", path |-> f.path, allItems |-> items,
                pageNumber |-> f.pageNumber + 1,
                nextPath |-> IF cont THEN np ELSE f.nextPath,
                seenPaths |-> IF enter THEN seen \cup {np}
                              ELSE IF cont \/ f.at = "loop" THEN seen ELSE {}]]

\* Mutant of FetchAllError: the items gathered so far are dropped.
FetchAllErrorDiscarding(f, e) ==
    IF f.at = "first"
    THEN [items |-> <<>>, err |-> <<"fetch", "first", "page:">> \o e]
    ELSE [items |-> <<>>,
          err |-> <<"fetch", "page", ToString(f.pageNumber + 1), ":">> \o e]

\* Mutant of FetchAllError: the failure of the first request is returned
\* with the (empty) item the response was to be decoded into.
FetchAllErrorWithTarget(f, e) ==
    IF f.at = "first"
    THEN [items |-> <<[ID |-> <<>>]>>, err |-> <<"fetch", "first", "page:">> \o e]
    ELSE [items |-> f.allItems,
          err |-> <<"fetch", "page", ToString(f.pageNumber + 1), ":">> \o e]

\* What fetchAll returns when fetch returns the error e.
FetchAllError(f, e) ==
    IF f.at = "first"
    THEN [items |-> <<>>, err |-> <<"fetch", "first", "page:">> \o e]
    ELSE [items |-> f.allItems,
          err |-> <<"fetch", "page", ToString(f.pageNumber + 1), ":">> \o e]

\* fetchAll returns to Collect, which assigns the list and err.
Return(items, e) ==
    /\ pc' = "returned"
    /\ results' = [results EXCEPT ![Kinds[cur]] = items]
    /\ err' = e
    /\ events' = Append(events, [kind |-> Kinds[cur],
                                 ev |-> IF e = Nil THEN "ok" ELSE "fail",
                                 pages |-> Len(pages')])
    /\ failedFetches' = IF e # Nil THEN failedFetches + 1 ELSE failedFetches
    /\ ft' = NoFetch

\* --------------------------------------------------------------------- fetch
\* Mutant of Attempt: an attempt that is retried counts as a scrape error.
AttemptCountingRetried(out) ==
    /\ pc = "fetching"
    /\ out \in Outcomes(Kinds[cur], server)
    /\ last' = [stage |-> out.stage, cause |-> out.cause, status |-> out.status]
    /\ LET e == doFetch(out)
           now == [delays |-> Append(call.delays, Delay(ft.attempt)),
                   causes |-> call.causes \cup {out.cause}]
       IN IF e = Nil
          THEN LET a == AfterPage(fa, out.page)
               IN /\ pages' = Append(pages, out.page)
                  /\ fa' = a.fa
                  /\ call' = NoCall
                  /\ IF a.call
                     THEN /\ ft' = [path |-> a.fa.nextPath, body |-> EmptyBody,
                                    attempt |-> 0]
                          /\ logged' = logged \o debug(<<"Next:">> \o a.fa.nextPath)
                          /\ requests' = Append(requests,
                                 [path |-> a.fa.nextPath, body |-> EmptyBody])
                          /\ UNCHANGED <<pc, results, err, events, failedFetches,
                                         scrapeErrorsTotal>>
                     ELSE /\ Return(a.fa.allItems, Nil)
                          /\ UNCHANGED <<requests, logged, scrapeErrorsTotal>>
          ELSE IF Retryable(ft.attempt, e)
          THEN /\ ft' = [ft EXCEPT !.attempt = @ + 1]
               /\ call' = now
               /\ logged' = logged \o debug(<<"Retryable", "error:">>)
               /\ scrapeErrorsTotal' = scrapeErrorsTotal + 1
               /\ UNCHANGED <<pc, results, err, events, failedFetches, fa,
                              requests, pages>>
          ELSE /\ UNCHANGED <<fa, requests, pages, logged, scrapeErrorsTotal>>
               /\ Return(FetchAllError(fa, e).items, FetchAllError(fa, e).err)
               /\ call' = now
    /\ fetched' = IF doFetch(out) = Nil
                  THEN [fetched EXCEPT ![Kinds[cur]] = @ \o out.page.Data]
                  ELSE fetched
    /\ UNCHANGED <<cur, success, scrapeDurationSeconds, ch,
                   server, errorsAtStart, collects, config>>

\* Mutant of Attempt: the attempt counter goes on from one page request to
\* the next.
AttemptSharingBudget(out) ==
    /\ pc = "fetching"
    /\ out \in Outcomes(Kinds[cur], server)
    /\ last' = [stage |-> out.stage, cause |-> out.cause, status |-> out.status]
    /\ LET e == doFetch(out)
           now == [delays |-> Append(call.delays, Delay(ft.attempt)),
                   causes |-> call.causes \cup {out.cause}]
       IN IF e = Nil
          THEN LET a == AfterPage(fa, out.page)
               IN /\ pages' = Append(pages, out.page)
                  /\ fa' = a.fa
                  /\ call' = NoCall
                  /\ IF a.call
                     THEN /\ ft' = [path |-> a.fa.nextPath, body |-> EmptyBody,
                                    attempt |-> ft.attempt]
                          /\ logged' = logged \o debug(<<"Next:">> \o a.fa.nextPath)
                          /\ requests' = Append(requests,
                                 [path |-> a.fa.nextPath, body |-> EmptyBody])
                          /\ UNCHANGED <<pc, results, err, events, failedFetches>>
                     ELSE /\ Return(a.fa.allItems, Nil)
                          /\ UNCHANGED <<requests, logged>>
          ELSE IF Retryable(ft.attempt, e)
          THEN /\ ft' = [ft EXCEPT !.attempt = @ + 1]
               /\ call' = now
               /\ logged' = logged \o debug(<<"Retryable", "error:">>)
               /\ UNCHANGED <<pc, results, err, events, failedFetches, fa,
                              requests, pages>>
          ELSE /\ UNCHANGED <<fa, requests, pages, logged>>
               /\ Return(FetchAllError(fa, e).items, FetchAllError(fa, e).err)
               /\ call' = now
    /\ fetched' = IF doFetch(out) = Nil
                  THEN [fetched EXCEPT ![Kinds[cur]] = @ \o out.page.Data]
                  ELSE fetched
    /\ UNCHANGED <<cur, success, scrapeErrorsTotal, scrapeDurationSeconds, ch,
                   server, errorsAtStart, collects, config>>

\* One iteration of the retry loop of fetch: the sleep, the doFetch call and
\* what follows from its result.
Attempt(out) ==
    /\ pc = "fetching"
    /\ out \in Outcomes(Kinds[cur], server)
    /\ last' = [stage |-> out.stage, cause |-> out.cause, status |-> out.status]
    /\ LET e == doFetch(out)
           now == [delays |-> Append(call.delays, Delay(ft.attempt)),
                   causes |-> call.causes \cup {out.cause}]
       IN IF e = Nil
          THEN LET a == AfterPage(fa, out.page)
               IN /\ pages' = Append(pages, out.page)
                  /\ fa' = a.fa
                  /\ call' = NoCall
                  /\ IF a.call
                     THEN /\ ft' = [path |-> a.fa.nextPath, body |-> EmptyBody,
                                    attempt |-> 0]
                          /\ logged' = logged \o debug(<<"Next:">> \o a.fa.nextPath)
                          /\ requests' = Append(requests,
                                 [path |-> a.fa.nextPath, body |-> EmptyBody])
                          /\ UNCHANGED <<pc, results, err, events, failedFetches>>
                     ELSE /\ Return(a.fa.allItems, Nil)
                          /\ UNCHANGED <<requests, logged>>
          ELSE IF Retryable(ft.attempt, e)
          THEN /\ ft' = [ft EXCEPT !.attempt = @ + 1]
               /\ call' = now
               /\ logged' = logged \o debug(<<"Retryable", "error:">>)
               /\ UNCHANGED <<pc, results, err, events, failedFetches, fa,
                              requests, pages>>
          ELSE /\ UNCHANGED <<fa, requests, pages, logged>>
               /\ Return(FetchAllError(fa, e).items, FetchAllError(fa, e).err)
               /\ call' = now
    /\ fetched' = IF doFetch(out) = Nil
                  THEN [fetched EXCEPT ![Kinds[cur]] = @ \o out.page.Data]
                  ELSE fetched
    /\ UNCHANGED <<cur, success, scrapeErrorsTotal, scrapeDurationSeconds, ch,
                   server, errorsAtStart, collects, config>>

\* ------------------------------------------------------------------- samples
Sample(name, labels, value) == [name |-> name, labels |-> labels, value |-> value]

RECURSIVE BagOf(_)
BagOf(samples) ==
    IF samples = <<>> THEN EmptyBag
    ELSE SetToBag({Head(samples)}) (+) BagOf(Tail(samples))

\* documentCounts[id]: the number of fetched documents with CollectionId id.
documentCounts(documents, id) ==
    Cardinality({i \in 1..Len(documents) : documents[i].CollectionId = id})

uniqueKey(document) == document.ID \o <<":">> \o document.CollectionId

\* Mutant of uniqueDocuments: the loop starts at the second document.
uniqueDocumentsFromSecond(documents) ==
    LET rest == IF documents = <<>> THEN <<>> ELSE Tail(documents)
    IN [key \in {uniqueKey(rest[i]) : i \in 1..Len(rest)} |->
           rest[CHOOSE i \in 1..Len(rest) :
                   /\ uniqueKey(rest[i]) = key
                   /\ \A j \in 1..(i - 1) : uniqueKey(rest[j]) # key]]

\* Mutant of uniqueDocuments: every document is kept.
uniqueDocumentsAll(documents) == documents

\* The map uniqueDocuments: each key is bound to the first document with it.
uniqueDocuments(documents) ==
    [key \in {uniqueKey(documents[i]) : i \in 1..Len(documents)} |->
        documents[CHOOSE i \in 1..Len(documents) :
                     /\ uniqueKey(documents[i]) = key
                     /\ \A j \in 1..(i - 1) : uniqueKey(documents[j]) # key]]

\* The line log.Printf("Warning: %d duplicate documents", ...) writes when
\* the list and the map differ in size.
DuplicateWarning(documents) ==
    LET total == Len(documents)
        unique == Cardinality(DOMAIN uniqueDocuments(documents))
    IN IF total > 0 /\ total # unique
       THEN <<<<"Warning:", ToString(total - unique), "duplicate", "documents">>>>
       ELSE <<>>

\* Mutant of CollectionSamples: a collection absent from documentCounts gets
\* no document-count sample.
CollectionSamplesCounted(collections, documents) ==
    IF Len(collections) > 0
    THEN BagOf(<<Sample("outline_collections_total", <<>>, Len(collections))>>)
         (+) BagOf(SelectSeq([i \in 1..Len(collections) |->
                Sample("outline_collection_documents_count",
                       <<collections[i].ID, collections[i].Name>>,
                       documentCounts(documents, collections[i].ID))],
                LAMBDA x : x.value # 0))
         (+) BagOf([i \in 1..Len(collections) |->
                Sample("outline_collection_age_seconds",
                       <<collections[i].ID, collections[i].Name>>,
                       Clock - collections[i].CreatedAt)])
    ELSE EmptyBag

CollectionSamples(collections, documents) ==
    IF Len(collections) > 0
    THEN BagOf(<<Sample("outline_collections_total", <<>>, Len(collections))>>)
         (+) BagOf([i \in 1..Len(collections) |->
                Sample("outline_collection_documents_count",
                       <<collections[i].ID, collections[i].Name>>,
                       documentCounts(documents, collections[i].ID))])
         (+) BagOf([i \in 1..Len(collections) |->
                Sample("outline_collection_age_seconds",
                       <<collections[i].ID, collections[i].Name>>,
                       Clock - collections[i].CreatedAt)])
    ELSE EmptyBag

\* The five samples of one document.
DocumentFamilies(d) ==
    LET labels == <<d.ID, d.CollectionId>>
    IN <<Sample("outline_document_revisions", labels, d.Revision),
         Sample("outline_document_views", labels, d.Views),
         Sample("outline_document_age_seconds", labels, Clock - d.CreatedAt),
         Sample("outline_document_size_bytes", labels, Len(d.Text)),
         Sample("outline_document_update_age_seconds", labels, Clock - d.UpdatedAt)>>

RECURSIVE BagSum(_)
BagSum(bags) ==
    IF bags = {} THEN EmptyBag
    ELSE LET b == CHOOSE x \in bags : TRUE IN b (+) BagSum(bags \ {b})

DocumentSamples(documents) ==
    IF Len(documents) > 0
    THEN LET unique == uniqueDocuments(documents)
         IN BagOf(<<Sample("outline_documents_total", <<>>,
                           Cardinality(DOMAIN unique))>>)
            (+) BagSum({BagOf(DocumentFamilies(unique[key])) : key \in DOMAIN unique})
    ELSE EmptyBag

\* Mutant of UserSamples: the total is sent for an empty list too.
UserSamplesWithTotal(users) ==
    BagOf(<<Sample("outline_users_total", <<>>, Len(users))>>)
    (+) BagOf([i \in 1..Len(users) |->
           Sample("outline_user_last_active_seconds",
                  <<users[i].ID, users[i].Name>>, Clock - users[i].LastActiveAt)])
    (+) BagOf([i \in 1..Len(users) |->
           Sample("outline_user_age_seconds",
                  <<users[i].ID, users[i].Name>>, Clock - users[i].CreatedAt)])

UserSamples(users) ==
    IF Len(users) > 0
    THEN BagOf(<<Sample("outline_users_total", <<>>, Len(users))>>)
         (+) BagOf([i \in 1..Len(users) |->
                Sample("outline_user_last_active_seconds",
                       <<users[i].ID, users[i].Name>>, Clock - users[i].LastActiveAt)])
         (+) BagOf([i \in 1..Len(users) |->
                Sample("outline_user_age_seconds",
                       <<users[i].ID, users[i].Name>>, Clock - users[i].CreatedAt)])
    ELSE EmptyBag

UpSamples(ok) ==
    IF ok
    THEN BagOf(<<Sample("outline_up", <<>>, 1),
                 Sample("outline_scrape_success_timestamp", <<>>, Clock)>>)
    ELSE BagOf(<<Sample("outline_up", <<>>, 0)>>)

\* ------------------------------------------------------------------- Collect
\* Mutant of StartCollect: the collections list is kept from cycle to cycle
\* and fetchAll appends to it.
StartCollectAppending ==
    /\ pc = "idle"
    /\ scrapeErrorsTotal < MaxErrors
    /\ errorsAtStart' = scrapeErrorsTotal
    /\ success' = TRUE
    /\ err' = Nil
    /\ results' = results
    /\ fetched' = NoResults
    /\ ch' = EmptyBag
    /\ cur' = 1
    /\ pc' = "fetching"
    /\ fa' = [at |-> "first", path |-> StartPath(Kinds[1]),
              allItems |-> results[Kinds[1]], pageNumber |-> 0,
              nextPath |-> <<>>, seenPaths |-> {}]
    /\ ft' = [path |-> StartPath(Kinds[1]), body |-> FirstBody, attempt |-> 0]
    /\ requests' = <<[path |-> StartPath(Kinds[1]), body |-> FirstBody]>>
    /\ pages' = <<>>
    /\ call' = NoCall
    /\ last' = NoOutcome
    /\ logged' = debug(<<"Fetch">> \o StartPath(Kinds[1]))
    /\ events' = <<[kind |-> Kinds[1], ev |-> "start", pages |-> 0]>>
    /\ UNCHANGED <<scrapeErrorsTotal, scrapeDurationSeconds, failedFetches,
                   server, collects, config>>

\* Collect from its entry to the first request of fetchAll[Collection].
StartCollect ==
    /\ pc = "idle"
    /\ scrapeErrorsTotal < MaxErrors
    /\ errorsAtStart' = scrapeErrorsTotal
    /\ success' = TRUE
    /\ err' = Nil
    /\ results' = NoResults
    /\ fetched' = NoResults
    /\ ch' = EmptyBag
    /\ cur' = 1
    /\ pc' = "fetching"
    /\ BeginFetchAll(StartPath(Kinds[1]))
    /\ events' = <<[kind |-> Kinds[1], ev |-> "start", pages |-> 0]>>
    /\ UNCHANGED <<scrapeErrorsTotal, scrapeDurationSeconds, failedFetches,
                   server, collects, config>>

\* Mutant of Account: a failed fetch leaves the success flag alone.
AccountKeepsSuccess ==
    /\ scrapeErrorsTotal' = IF err # Nil THEN scrapeErrorsTotal + 1
                            ELSE scrapeErrorsTotal
    /\ success' = success

\* Mutant of Account: only the first failure of a cycle is counted.
AccountFirstFailureOnly ==
    /\ scrapeErrorsTotal' = IF err # Nil /\ success THEN scrapeErrorsTotal + 1
                            ELSE scrapeErrorsTotal
    /\ success' = IF err # Nil THEN FALSE ELSE success

\* The if err != nil block that follows each fetchAll call.
Account ==
    /\ scrapeErrorsTotal' = IF err # Nil THEN scrapeErrorsTotal + 1
                            ELSE scrapeErrorsTotal
    /\ success' = IF err # Nil THEN FALSE ELSE success

\* Mutant of NextFetch: after a failed fetch the fetches before the last one
\* are skipped.
NextFetchSkipping ==
    /\ pc = "returned"
    /\ cur < Len(Kinds)
    /\ Account
    /\ cur' = IF err # Nil THEN Len(Kinds) ELSE cur + 1
    /\ pc' = "fetching"
    /\ BeginFetchAll(StartPath(Kinds[cur']))
    /\ events' = Append(events, [kind |-> Kinds[cur'], ev |-> "start",
                                 pages |-> 0])
    /\ UNCHANGED <<err, results, scrapeDurationSeconds, ch, failedFetches,
                   server, errorsAtStart,
                   collects,
                   config, fetched>>

\* Mutant of NextFetch: Collect goes on only after a fetch without failure.
NextFetchUnlessFailed ==
    /\ pc = "returned"
    /\ cur < Len(Kinds)
    /\ err = Nil
    /\ Account
    /\ cur' = cur + 1
    /\ pc' = "fetching"
    /\ BeginFetchAll(StartPath(Kinds[cur + 1]))
    /\ events' = Append(events, [kind |-> Kinds[cur + 1], ev |-> "start",
                                 pages |-> 0])
    /\ UNCHANGED <<err, results, scrapeDurationSeconds, ch, failedFetches,
                   server, errorsAtStart,
                   collects,
                   config, fetched>>

\* Collect from the return of the collections or documents fetch to the
\* first request of the next fetchAll.
NextFetch ==
    /\ pc = "returned"
    /\ cur < Len(Kinds)
    /\ Account
    /\ cur' = cur + 1
    /\ pc' = "fetching"
    /\ BeginFetchAll(StartPath(Kinds[cur + 1]))
    /\ events' = Append(events, [kind |-> Kinds[cur + 1], ev |-> "start",
                                 pages |-> 0])
    /\ UNCHANGED <<err, results, scrapeDurationSeconds, ch, failedFetches,
                   server, errorsAtStart,
                   collects,
                   config, fetched>>

\* Mutant of Emit: a cycle with a failed fetch sends no entity samples.
EmitAbortingOnFailure(elapsed) ==
    /\ pc = "returned"
    /\ cur = Len(Kinds)
    /\ Account
    /\ scrapeDurationSeconds' = elapsed
    /\ ch' = UpSamples(success')
             (+) (IF success'
                  THEN CollectionSamples(results["collections"],
                                         results["documents"])
                       (+) DocumentSamples(results["documents"])
                       (+) UserSamples(results["users"])
                  ELSE EmptyBag)
             (+) BagOf(<<Sample("outline_scrape_duration_seconds", <<>>,
                                scrapeDurationSeconds'),
                         Sample("outline_scrape_errors_total", <<>>,
                                scrapeErrorsTotal')>>)
    /\ logged' = logged \o DuplicateWarning(results["documents"])
    /\ pc' = "idle"
    /\ UNCHANGED <<cur, err, results, fa, ft, requests, pages, call, last,
                   events, failedFetches, server, errorsAtStart,
                   collects, config, fetched>>

\* Collect from the return of the users fetch to its end; elapsed is
\* time.Since(startTime).
Emit(elapsed) ==
    /\ pc = "returned"
    /\ cur = Len(Kinds)
    /\ Account
    /\ scrapeDurationSeconds' = elapsed
    /\ ch' = UpSamples(success')
             (+) CollectionSamples(results["collections"], results["documents"])
             (+) DocumentSamples(results["documents"])
             (+) UserSamples(results["users"])
             (+) BagOf(<<Sample("outline_scrape_duration_seconds", <<>>,
                                scrapeDurationSeconds'),
                         Sample("outline_scrape_errors_total", <<>>,
                                scrapeErrorsTotal')>>)
    /\ logged' = logged \o DuplicateWarning(results["documents"])
    /\ pc' = "idle"
    /\ UNCHANGED <<cur, err, results, fa, ft, requests, pages, call, last,
                   events, failedFetches, server, errorsAtStart,
                   collects, config, fetched>>

Next ==
    \/ StartCollect
    \/ \E out \in AllOutcomes : Attempt(out)
    \/ NextFetch
    \/ \E elapsed \in 1..MaxDuration : Emit(elapsed)

Spec == Init /\ [][Next]_vars

\* A server whose pages are full and name no further page.
SmallServer == [sizes |-> {PageLimit}, paths |-> {EmptyPath}]

InitSmall == Created /\ server = SmallServer

\* The steps of a cycle that has started.
Run ==
    \/ \E out \in AllOutcomes : Attempt(out)
    \/ NextFetch
    \/ \E elapsed \in 1..MaxDuration : Emit(elapsed)

\* The first scrape of the exporter, and no other.
FirstCollect == cur = 0 /\ StartCollect

NextFirst == FirstCollect \/ Run

\* A cycle that has started goes on: every request attempt returns, and
\* Collect runs on when a call returns.
LiveSpec == InitSmall /\ [][NextFirst]_vars /\ WF_vars(Run)

TypeOK ==
    /\ pc \in {"idle", "fetching", "returned"}
    /\ cur \in 0..Len(Kinds)
    /\ scrapeErrorsTotal \in Nat

\* ------------------------------------------------- one fetchAll invocation
\* The collections fetch of one cycle against the paging server.
InitPaging == Created /\ server = PagingServer

NextPaging ==
    \/ StartCollect
    \/ \E out \in AllOutcomes : Attempt(out)

SpecPaging == InitPaging /\ [][NextPaging]_vars

\* Every request attempt returns: an attempt that can be made is made.
LiveSpecPaging ==
    SpecPaging /\ WF_vars(\E out \in AllOutcomes : Attempt(out))

\* =================================================================== claims
\* The number of samples of the family name sent on ch.
RECURSIVE Copies(_, _)
Copies(bag, samples) ==
    IF samples = {} THEN 0
    ELSE LET x == CHOOSE y \in samples : TRUE
         IN CopiesIn(x, bag) + Copies(bag, samples \ {x})

NamedCount(name) == Copies(ch, {x \in BagToSet(ch) : x.name = name})

\* A cycle has run to its end.
Done == pc = "idle" /\ cur = Len(Kinds)

\* The returns of this cycle's fetchAll calls that carried a failure.
Failures_ == {j \in 1..Len(events) : events[j].ev = "fail"}
FailedKinds == {events[j].kind : j \in Failures_}
CycleFailures == Cardinality(Failures_)

\* C1: a finished cycle has sent exactly one up sample, of value 1 if no
\* fetch of the cycle returned a failure and of value 0 otherwise, and has
\* sent the success timestamp exactly when up is 1.
C1_UpSample ==
    Done =>
        /\ NamedCount("outline_up") = 1
        /\ CopiesIn(Sample("outline_up", <<>>, 1), ch)
               = (IF FailedKinds = {} THEN 1 ELSE 0)
        /\ CopiesIn(Sample("outline_up", <<>>, 0), ch)
               = (IF FailedKinds = {} THEN 0 ELSE 1)
        /\ NamedCount("outline_scrape_success_timestamp")
               = (IF FailedKinds = {} THEN 1 ELSE 0)

C1_Witness ==
    /\ Done
    /\ FailedKinds = {"documents"}
    /\ CopiesIn(Sample("outline_up", <<>>, 0), ch) = 1
    /\ NamedCount("outline_scrape_success_timestamp") = 0

\* C2: the fetchAll calls of a cycle are collections, documents, users in
\* this order, each started after the one before it has returned, and a
\* finished cycle has made all three, whatever they returned.
C2_FetchOrder ==
    /\ Len(events) <= 6
    /\ \A i \in 1..Len(events) :
          /\ events[i].kind = <<"collections", "collections", "documents",
                                "documents", "users", "users">>[i]
          /\ (events[i].ev = "start") <=> (i % 2 = 1)
    /\ pc = "fetching" => Len(events) % 2 = 1
    /\ Done => Len(events) = 6

C2_Witness ==
    /\ Done
    /\ Len(events) = 6
    /\ events[2].ev = "fail"
    /\ events[4].ev = "fail"
    /\ events[6].ev = "ok"

\* C3: the error counter grows in a cycle by the number of fetches of the
\* cycle that failed, between 0 and 3, and between cycles it keeps its
\* value: it is the number of failed fetches since the exporter was created.
C3_ErrorCounter ==
    /\ scrapeErrorsTotal >= errorsAtStart
    /\ pc = "idle" => scrapeErrorsTotal = failedFetches
    /\ Done => /\ CycleFailures \in 0..3
               /\ scrapeErrorsTotal = errorsAtStart + CycleFailures
               /\ CopiesIn(Sample("outline_scrape_errors_total", <<>>,
                                  errorsAtStart + CycleFailures), ch) = 1

C3_Witness ==
    /\ Done
    /\ errorsAtStart = 1
    /\ CycleFailures = 3
    /\ scrapeErrorsTotal = 4

\* ----------------------------------------------------------- fetchAll claims
Returned == pc = "returned"

\* The items of the pages decoded by the current fetchAll, in page order.
RECURSIVE Concat(_)
Concat(ps) == IF ps = <<>> THEN <<>> ELSE Head(ps).Data \o Concat(Tail(ps))

\* The list the fetchAll that has returned handed to Collect.
Result == results[Kinds[cur]]

\* The paths requested before page i was requested.
Earlier(i) == {requests[j].path : j \in 1..i}

\* Page i ends the server's page chain: it names no further page.
EndsChain(i) ==
    \/ TrimSpace(pages[i].Pagination.NextPath) = <<>>
    \/ pages[i].Pagination.NextPath \in Earlier(i)

\* Page i has as many items as the limit it reports.
Full(i) == Len(pages[i].Data) = pages[i].Pagination.Limit

\* The requests follow the chain: the starting path, then each page's
\* continuation path.
FollowsChain ==
    /\ requests[1].path = StartPath(Kinds[cur])
    /\ \A i \in 2..Len(requests) :
          requests[i].path = pages[i - 1].Pagination.NextPath

\* The paths that can be requested from the server: the starting path of
\* each kind and the continuation paths its pages name.
RequestablePaths ==
    {p \in server.paths : TrimSpace(p) # <<>>}
        \cup {StartPath(Kinds[k]) : k \in 1..Len(Kinds)}

\* The paths the current fetchAll can request.
Requestable ==
    {p \in RequestablePaths :
        \A k \in 1..Len(Kinds) : p = StartPath(Kinds[k]) => k = cur}

\* C4: a fetchAll that is running returns, given that each of its request
\* attempts returns: it requests no more pages than there are distinct
\* paths, and no page more than 4 times.
C4_Terminates ==
    /\ [](/\ Len(requests) <= Cardinality(Requestable)
          /\ Len(call.delays) <= maxRetries + 1)
    /\ (pc = "fetching") ~> (pc = "returned")

\* The page chain led back to a continuation path requested before.
C4_Witness ==
    /\ Returned
    /\ err = Nil
    /\ Len(pages) = 3
    /\ Full(3)
    /\ pages[3].Pagination.NextPath = requests[2].path

\* C5 as claimed: a fetchAll that returns without failure has requested
\* the chain up to a page that names no further page, once each, and
\* returns the items of these pages in page order.
C5_Original ==
    (Returned /\ err = Nil) =>
        /\ Result = Concat(pages)
        /\ Len(requests) = Len(pages)
        /\ FollowsChain
        /\ EndsChain(Len(pages))

\* C5 as amended: the chain is followed up to the first page that names no
\* further page or whose item count differs from the limit it reports.
C5_Concatenation ==
    (Returned /\ err = Nil) =>
        /\ Result = Concat(pages)
        /\ Len(requests) = Len(pages)
        /\ FollowsChain
        /\ \A i \in 1..(Len(pages) - 1) : Full(i) /\ ~EndsChain(i)
        /\ EndsChain(Len(pages)) \/ ~Full(Len(pages))

\* A full page naming "/2", then a short page naming no page.
C5_Witness ==
    /\ Returned
    /\ err = Nil
    /\ Len(pages) = 2
    /\ Len(pages[1].Data) = PageLimit
    /\ pages[1].Pagination = [Limit |-> PageLimit, NextPath |-> Page2Path]
    /\ Len(pages[2].Data) = PageLimit - 1
    /\ pages[2].Pagination = [Limit |-> PageLimit, NextPath |-> EmptyPath]
    /\ Len(Result) = 2 * PageLimit - 1
    /\ Len(requests) = 2

C7_PartialResults ==
    (Returned /\ err # Nil /\ Len(pages) >= 1) =>
        /\ Result = Concat(pages)
        /\ Len(requests) = Len(pages) + 1
        /\ last.stage \notin {"ok", "none"}

C7_Witness ==
    /\ Returned
    /\ err # Nil
    /\ Len(pages) = 2
    /\ Len(Result) = 2 * PageLimit

\* -------------------------------------------------------- failed-kind claims
\* The metric families of each entity kind.
KindFamilies(kind) ==
    CASE kind = "collections" ->
            {"outline_collections_total", "outline_collection_documents_count",
             "outline_collection_age_seconds"}
      [] kind = "documents" ->
            {"outline_documents_total", "outline_document_revisions",
             "outline_document_views", "outline_document_age_seconds",
             "outline_document_size_bytes",
             "outline_document_update_age_seconds"}
      [] kind = "users" ->
            {"outline_users_total", "outline_user_last_active_seconds",
             "outline_user_age_seconds"}

\* The number of samples of the kind's families sent on ch.
KindCount(kind) ==
    Copies(ch, {x \in BagToSet(ch) : x.name \in KindFamilies(kind)})

\* The number of samples a non-empty list of the kind calls for: its total
\* and two samples per collection or user, five per distinct document.
Expected(kind, items) ==
    IF items = <<>> THEN 0
    ELSE IF kind = "documents"
    THEN 1 + 5 * Cardinality({uniqueKey(items[i]) : i \in 1..Len(items)})
    ELSE 1 + 2 * Len(items)

\* The returns of this cycle's fetchAll calls.
Returns == {j \in 1..Len(events) : events[j].ev # "start"}

\* C8 as claimed: in a finished cycle a kind whose fetch failed has
\* contributed an empty list and has no sample, and a kind whose fetch
\* succeeded has the samples of its list.
C8_Original ==
    Done =>
        \A j \in Returns :
            /\ events[j].ev = "fail" =>
                  /\ results[events[j].kind] = <<>>
                  /\ KindCount(events[j].kind) = 0
            /\ events[j].ev = "ok" =>
                  KindCount(events[j].kind)
                      = Expected(events[j].kind, results[events[j].kind])

\* C8 as amended: a kind whose fetch failed on its first page has
\* contributed an empty list and has no sample; a kind whose fetch failed
\* on a later page has contributed the items of the pages before it and has
\* their samples; a kind whose fetch succeeded has the samples of its list.
\* With only the collections fetch failed, up is 0 and the error counter is
\* one more than at the start of the cycle.
C8_FailedKind ==
    Done =>
        /\ \A j \in Returns :
              /\ KindCount(events[j].kind)
                     = Expected(events[j].kind, results[events[j].kind])
              /\ (events[j].ev = "fail" /\ events[j].pages = 0) =>
                     /\ results[events[j].kind] = <<>>
                     /\ KindCount(events[j].kind) = 0
              /\ (events[j].ev = "fail" /\ events[j].pages > 0) =>
                     /\ Len(results[events[j].kind])
                            = events[j].pages * PageLimit
                     /\ KindCount(events[j].kind) > 0
        /\ FailedKinds = {"collections"} =>
              /\ CopiesIn(Sample("outline_up", <<>>, 0), ch) = 1
              /\ scrapeErrorsTotal = errorsAtStart + 1

\* The collections fetch failed on its first page, the two others succeeded.
C8_Witness ==
    /\ Done
    /\ events[2] = [kind |-> "collections", ev |-> "fail", pages |-> 0]
    /\ events[4].ev = "ok"
    /\ events[6].ev = "ok"
    /\ KindCount("collections") = 0
    /\ KindCount("documents") > 0
    /\ KindCount("users") > 0
    /\ CopiesIn(Sample("outline_up", <<>>, 0), ch) = 1
    /\ scrapeErrorsTotal = errorsAtStart + 1

\* ------------------------------------------------------------- retry claims
\* The causes the retry policy is meant for.
Transient == {"timeout", "truncation"}

\* C9: a page request all of whose attempts fail with a timeout or a
\* truncated connection is attempted no more than 4 times, and fetch gives
\* up on it after exactly 4 attempts.
C9_FourAttempts ==
    call.causes \subseteq Transient =>
        /\ Len(call.delays) <= maxRetries + 1
        /\ (Returned /\ err # Nil) => Len(call.delays) = maxRetries + 1

\* C10: an attempt that fails with another failure than a timeout or a
\* truncated connection ends the fetch with that failure, and when it is
\* the first failure of the request it is its only attempt, made without
\* a backoff delay.
C10_NoRetry ==
    (last.stage \notin {"ok", "none"} /\ last.cause \notin Transient) =>
        /\ Returned
        /\ err # Nil
        /\ call.causes \cap Transient = {} => call.delays = <<0>>

\* The error fetch returned to fetchAll, which put its own words before it.
FetchError == SubSeq(err, Len(FetchAllError(fa, <<>>).err) + 1, Len(err))

\* C11: a fetch that gives up after 4 attempts, the last of which failed
\* with an error it retries, returns the error "max retries exceeded".
C11_MaxRetriesExceeded ==
    (/\ Returned
     /\ err # Nil
     /\ Len(call.delays) = maxRetries + 1
     /\ Retryable(0, FetchError)) =>
        FetchError = MaxRetriesExceeded

\* --------------------------------------------------------------- aggregation
\* The aggregation of Collect on the lists of a server whose ids are any
\* strings: document ids and collection ids with and without a colon.
MaxDocs == 3

DocumentIds == {<<"a">>, <<"a", ":", "b">>}
CollectionIds == {<<"c">>, <<"b", ":", "c">>}

AnyDocument(id, collectionId, n) ==
    [ID |-> id, CollectionId |-> collectionId, Revision |-> n,
     Views |-> 10 * n, Text |-> [i \in 1..n |-> "x"], CreatedAt |-> n,
     UpdatedAt |-> n + 1]

AnyDocuments ==
    {AnyDocument(id, collectionId, n) :
        id \in DocumentIds, collectionId \in CollectionIds, n \in 1..2}

AnyCollections ==
    {[ID |-> id, Name |-> <<"C">>, CreatedAt |-> 1] : id \in CollectionIds}

\* The lists of at most n elements of S.
Lists(S, n) == UNION {[1..k -> S] : k \in 0..n}

\* Collect when its users fetch has returned: each fetchAll got its list in
\* one page, without failure.
InitAggregate ==
    \E collections \in Lists(AnyCollections, 1),
       documents \in Lists(AnyDocuments, MaxDocs),
       users \in Lists({User(1)}, 1) :
        LET page == [Data |-> users,
                     Pagination |-> [Limit |-> PageLimit, NextPath |-> EmptyPath]]
            first == [at |-> "first", path |-> UsersPath, allItems |-> <<>>,
                      pageNumber |-> 0, nextPath |-> <<>>, seenPaths |-> {}]
        IN /\ pc = "returned"
           /\ cur = Len(Kinds)
           /\ success = TRUE
           /\ err = Nil
           /\ results = [collections |-> collections, documents |-> documents,
                         users |-> users]
           /\ scrapeErrorsTotal = 0
           /\ scrapeDurationSeconds = 0
           /\ fa = AfterPage(first, page).fa
           /\ ft = NoFetch
           /\ ch = EmptyBag
           /\ server = [sizes |-> {Len(users)}, paths |-> {EmptyPath}]
           /\ requests = <<[path |-> UsersPath, body |-> FirstBody]>>
           /\ pages = <<page>>
           /\ call = NoCall
           /\ last = [stage |-> "ok", cause |-> "none", status |-> "200"]
           /\ events = [i \in 1..(2 * Len(Kinds)) |->
                           [kind |-> Kinds[(i + 1) \div 2],
                            ev |-> IF i % 2 = 1 THEN "start" ELSE "ok",
                            pages |-> IF i % 2 = 1 THEN 0 ELSE 1]]
           /\ failedFetches = 0
           /\ errorsAtStart = 0
           /\ collects = NoCollects
           /\ config = [OutlineAPIKey |-> <<"k">>, Debug |-> FALSE]
           /\ fetched = results
           /\ logged = <<>>

NextAggregate == \E elapsed \in 1..MaxDuration : Emit(elapsed)

SpecAggregate == InitAggregate /\ [][NextAggregate]_vars

\* --------------------------------------------------- de-duplication claims
\* The (document id, collection id) pair of a document.
Pair(d) == <<d.ID, d.CollectionId>>

\* The document list Collect got and the map it built from it.
Docs == results["documents"]
Unique == uniqueDocuments(Docs)

\* The first document of the list with the pair of d.
FirstWith(pair) ==
    Docs[CHOOSE i \in 1..Len(Docs) :
            /\ Pair(Docs[i]) = pair
            /\ \A j \in 1..(i - 1) : Pair(Docs[j]) # pair]

\* C12: the map built from the document list has no more documents than
\* the list, and for each (document id, collection id) pair of the list
\* exactly one document, the first one of the list with that pair.
C12_FirstSeen ==
    Done =>
        /\ Cardinality(DOMAIN Unique) <= Len(Docs)
        /\ \A i \in 1..Len(Docs) :
              LET kept == {key \in DOMAIN Unique :
                              Pair(Unique[key]) = Pair(Docs[i])}
              IN /\ Cardinality(kept) = 1
                 /\ \A key \in kept : Unique[key] = FirstWith(Pair(Docs[i]))

\* C13: two documents of the list get the same key only if they have the
\* same document id and the same collection id.
C13_KeyIsPair ==
    Done =>
        \A i, j \in 1..Len(Docs) :
            uniqueKey(Docs[i]) = uniqueKey(Docs[j]) => Pair(Docs[i]) = Pair(Docs[j])

\* The lists that hold the documents of a map once each, in any order.
Orderings(map) ==
    {[i \in 1..Cardinality(DOMAIN map) |-> map[order[i]]] :
        order \in {o \in [1..Cardinality(DOMAIN map) -> DOMAIN map] :
                      \A i, j \in DOMAIN o : o[i] = o[j] => i = j}}

\* C14: the map built from the documents of the map, taken in any order,
\* is the map itself.
C14_Idempotent ==
    Done => \A again \in Orderings(Unique) : uniqueDocuments(again) = Unique

\* Three documents, two of them with the same key.
C14_Witness ==
    /\ Done
    /\ Len(Docs) = 3
    /\ Cardinality(DOMAIN Unique) = 2
    /\ uniqueKey(Docs[1]) = uniqueKey(Docs[3])
    /\ Docs[1] # Docs[3]

\* The families with one sample per document.
DocumentFamilyNames == KindFamilies("documents") \ {"outline_documents_total"}

\* C15: of each per-document family at most one sample with a given
\* (document_id, collection_id) label pair is sent in a cycle.
C15_NoDuplicateSamples ==
    Done =>
        \A x, y \in BagToSet(ch) :
            (/\ x.name \in DocumentFamilyNames
             /\ x.name = y.name
             /\ x.labels = y.labels) =>
                x = y /\ CopiesIn(x, ch) = 1

\* The same document came twice, with different revisions.
C15_Witness ==
    /\ Done
    /\ Len(Docs) = 2
    /\ Pair(Docs[1]) = Pair(Docs[2])
    /\ Docs[1].Revision # Docs[2].Revision
    /\ CopiesIn(Sample("outline_document_revisions", Pair(Docs[1]),
                       Docs[1].Revision), ch) = 1
    /\ CopiesIn(Sample("outline_document_revisions", Pair(Docs[1]),
                       Docs[2].Revision), ch) = 0

\* ------------------------------------------------------- aggregation claims
\* The sum of the values of the samples of a set, each counted as often as
\* it was sent on ch.
RECURSIVE SumValues(_)
SumValues(samples) ==
    IF samples = {} THEN 0
    ELSE LET x == CHOOSE y \in samples : TRUE
         IN x.value * CopiesIn(x, ch) + SumValues(samples \ {x})

CountSamples ==
    {x \in BagToSet(ch) : x.name = "outline_collection_documents_count"}

\* The ids of the collections Collect got.
FetchedCollectionIds ==
    {results["collections"][i].ID : i \in 1..Len(results["collections"])}

\* C16: in a finished cycle that got collections, the document-count
\* samples sum to the number of de-duplicated documents whose collection id
\* is the id of a collection of the list.
C16_CountsSum ==
    (Done /\ results["collections"] # <<>>) =>
        SumValues(CountSamples)
            = Cardinality({key \in DOMAIN Unique :
                              Unique[key].CollectionId \in FetchedCollectionIds})

\* The number of documents of the list that reference the collection id.
Referencing(id) ==
    Cardinality({i \in 1..Len(Docs) : Docs[i].CollectionId = id})

\* C17: a finished cycle has sent as many document-count samples as it got
\* collections, one for each collection of the list, and the sample of a
\* collection that no document of the list references has the value 0.
C17_ZeroCount ==
    Done =>
        /\ NamedCount("outline_collection_documents_count")
               = Len(results["collections"])
        /\ \A i \in 1..Len(results["collections"]) :
              LET c == results["collections"][i]
                  mine == {x \in CountSamples : x.labels = <<c.ID, c.Name>>}
              IN /\ mine # {}
                 /\ Referencing(c.ID) = 0 => mine = {Sample(
                        "outline_collection_documents_count",
                        <<c.ID, c.Name>>, 0)}

\* The documents fetch failed on its first page; the collections have their
\* samples, with the value 0.
C17_Witness ==
    /\ Done
    /\ events[4] = [kind |-> "documents", ev |-> "fail", pages |-> 0]
    /\ Docs = <<>>
    /\ Len(results["collections"]) = PageLimit
    /\ \A x \in CountSamples : x.value = 0
    /\ NamedCount("outline_collection_documents_count") = PageLimit

TotalNames ==
    {"outline_collections_total", "outline_documents_total",
     "outline_users_total"}

\* C18: a finished cycle has sent no sample of the families of a kind whose
\* list is empty, and no total of 0.
C18_EmptyListSilent ==
    Done =>
        /\ \A k \in 1..Len(Kinds) :
              KindCount(Kinds[k]) > 0 => results[Kinds[k]] # <<>>
        /\ \A x \in BagToSet(ch) : x.name \in TotalNames => x.value > 0

\* The users fetch succeeded with an empty list.
C18_Witness ==
    /\ Done
    /\ events[6] = [kind |-> "users", ev |-> "ok", pages |-> 1]
    /\ results["users"] = <<>>
    /\ KindCount("users") = 0
    /\ KindCount("collections") > 0

\* ---------------------------------------------------------- completion claim
\* C19: a cycle that has started runs to its end whatever its fetches
\* return, and at its end it has sent exactly one up sample, one duration
\* sample and one error-counter sample.
C19_CycleCompletes ==
    /\ [](Done =>
            /\ NamedCount("outline_up") = 1
            /\ NamedCount("outline_scrape_duration_seconds") = 1
            /\ NamedCount("outline_scrape_errors_total") = 1)
    /\ (pc # "idle") ~> Done

\* All three fetches of the cycle failed.
C19_Witness ==
    /\ Done
    /\ CycleFailures = 3
    /\ NamedCount("outline_up") = 1
    /\ NamedCount("outline_scrape_duration_seconds") = 1
    /\ NamedCount("outline_scrape_errors_total") = 1

\* ------------------------------------------------------- concurrent scrapes
\* Two scrapes whose Collect calls overlap: of each call the statements
\* that use the counter and the gauge the calls share.
MaxTime == 2

\* Time passes.
Tick ==
    /\ collects.now < MaxTime
    /\ collects' = [collects EXCEPT !.now = @ + 1]
    /\ UNCHANGED <<pc, cur, success, err, results, scrapeErrorsTotal,
                   scrapeDurationSeconds, fa, ft, ch, server, requests, pages,
                   call, last, events, failedFetches, errorsAtStart,
                   config, fetched, logged>>

\* startTime := time.Now()
Begin(g) ==
    /\ collects.of[g].at = "idle"
    /\ collects' = [collects EXCEPT !.of[g].at = "running",
                                    !.of[g].startTime = collects.now]
    /\ UNCHANGED <<pc, cur, success, err, results, scrapeErrorsTotal,
                   scrapeDurationSeconds, fa, ft, ch, server, requests, pages,
                   call, last, events, failedFetches, errorsAtStart,
                   config, fetched, logged>>

\* Mutant of FetchReturns: the counter is set to the call's own count.
FetchReturnsSetting(g, failed) ==
    /\ collects.of[g].at = "running"
    /\ collects.of[g].fetches < Len(Kinds)
    /\ scrapeErrorsTotal' = IF failed THEN collects.of[g].failed + 1
                            ELSE scrapeErrorsTotal
    /\ collects' = [collects EXCEPT
           !.of[g].fetches = @ + 1,
           !.of[g].failed = IF failed THEN @ + 1 ELSE @]
    /\ UNCHANGED <<pc, cur, success, err, results, scrapeDurationSeconds, fa,
                   ft, ch, server, requests, pages, call, last, events,
                   failedFetches, errorsAtStart,
                   config, fetched, logged>>

\* A fetchAll call of Collect returns, and after a failure
\* e.scrapeErrorsTotal.Inc(), which prometheus.Counter does atomically.
FetchReturns(g, failed) ==
    /\ collects.of[g].at = "running"
    /\ collects.of[g].fetches < Len(Kinds)
    /\ scrapeErrorsTotal' = IF failed THEN scrapeErrorsTotal + 1
                            ELSE scrapeErrorsTotal
    /\ collects' = [collects EXCEPT
           !.of[g].fetches = @ + 1,
           !.of[g].failed = IF failed THEN @ + 1 ELSE @]
    /\ UNCHANGED <<pc, cur, success, err, results, scrapeDurationSeconds, fa,
                   ft, ch, server, requests, pages, call, last, events,
                   failedFetches, errorsAtStart,
                   config, fetched, logged>>

\* e.scrapeDurationSeconds.Set(time.Since(startTime).Seconds()), after the
\* fetches and the aggregation of the call.
SetDuration(g) ==
    /\ collects.of[g].at = "running"
    /\ collects.of[g].fetches = Len(Kinds)
    /\ scrapeDurationSeconds' = collects.now - collects.of[g].startTime
    /\ collects' = [collects EXCEPT !.of[g].at = "set",
                                    !.of[g].elapsed = scrapeDurationSeconds']
    /\ UNCHANGED <<pc, cur, success, err, results, scrapeErrorsTotal, fa, ft,
                   ch, server, requests, pages, call, last, events,
                   failedFetches, errorsAtStart,
                   config, fetched, logged>>

\* e.scrapeDurationSeconds.Collect(ch): the sample has the gauge's value.
CollectDuration(g) ==
    /\ collects.of[g].at = "set"
    /\ collects' = [collects EXCEPT !.of[g].at = "done",
                                    !.of[g].sent = scrapeDurationSeconds]
    /\ UNCHANGED <<pc, cur, success, err, results, scrapeErrorsTotal,
                   scrapeDurationSeconds, fa, ft, ch, server, requests, pages,
                   call, last, events, failedFetches, errorsAtStart,
                   config, fetched, logged>>

NextConcurrent ==
    \/ Tick
    \/ \E g \in Scrapers : Begin(g)
    \/ \E g \in Scrapers, failed \in BOOLEAN : FetchReturns(g, failed)
    \/ \E g \in Scrapers : SetDuration(g)
    \/ \E g \in Scrapers : CollectDuration(g)

SpecConcurrent == Init /\ [][NextConcurrent]_vars

\* C20: the duration sample a Collect call has sent is the time that passed
\* between its own start and the end of its own work.
C20_OwnDuration ==
    \A g \in Scrapers :
        collects.of[g].at = "done" =>
            collects.of[g].sent = collects.of[g].elapsed

\* ---------------------------------------------------------- pagination claims
\* C25: the page requests of one fetchAll have pairwise different paths.
C25_NoPathTwice ==
    \A i, j \in 1..Len(requests) :
        requests[i].path = requests[j].path => i = j

\* A full second page names the starting path, which is not requested again.
C25_Witness ==
    /\ Returned
    /\ err = Nil
    /\ Len(pages) = 2
    /\ Len(requests) = 2
    /\ Full(2)
    /\ pages[2].Pagination.NextPath = StartPath(Kinds[cur])

\* The latest page is full and names a path that was requested before.
NamesVisitedPath ==
    /\ pages # <<>>
    /\ Len(requests) = Len(pages)
    /\ shouldPaginate(pages[Len(pages)].Pagination,
                      Len(pages[Len(pages)].Data))
    /\ pages[Len(pages)].Pagination.NextPath \in Earlier(Len(pages))

\* C26: a fetchAll whose latest page is full and names a visited path has
\* returned without failure all the items of its pages, that page's
\* included; when no fetch of the cycle failed, the cycle sends up = 1 and
\* leaves the error counter as it was.
C26_GuardIsNoFailure ==
    (pc # "fetching" /\ NamesVisitedPath) =>
        /\ err = Nil
        /\ Result = Concat(pages)
        /\ events[Len(events)].ev = "ok"
        /\ (Done /\ FailedKinds = {}) =>
              /\ CopiesIn(Sample("outline_up", <<>>, 1), ch) = 1
              /\ scrapeErrorsTotal = errorsAtStart

\* The users fetch stopped at a second page that names its own path; no
\* fetch of the cycle failed.
C26_Witness ==
    /\ Done
    /\ NamesVisitedPath
    /\ Len(pages) = 2
    /\ pages[2].Pagination.NextPath = Page2Path
    /\ Len(results["users"]) = 2 * PageLimit
    /\ FailedKinds = {}
    /\ CopiesIn(Sample("outline_up", <<>>, 1), ch) = 1

\* C27: no page is requested after a page whose continuation path is empty
\* or blank.
C27_BlankPathIsLast ==
    \A i \in 1..Len(pages) :
        TrimSpace(pages[i].Pagination.NextPath) = <<>> => Len(requests) <= i

\* A full second page names a blank path.
C27_Witness ==
    /\ Returned
    /\ err = Nil
    /\ Len(pages) = 2
    /\ Len(requests) = 2
    /\ Full(2)
    /\ pages[2].Pagination.NextPath = BlankPath

RECURSIVE Sum(_)
Sum(seq) == IF seq = <<>> THEN 0 ELSE Head(seq) + Sum(Tail(seq))

\* C28: the attempts of a page request are preceded by the delays 0, 1, 2
\* and 4, in this order, and a request that has failed 4 times has waited 7.
C28_Backoff ==
    /\ \A k \in 1..Len(call.delays) :
          call.delays[k] = <<0, 1, 2, 4>>[k]
    /\ (Returned /\ Len(call.delays) = maxRetries + 1) =>
          Sum(call.delays) = 7

C28_Witness ==
    /\ Returned
    /\ err # Nil
    /\ call.delays = <<0, 1, 2, 4>>
    /\ call.causes = {"truncation", "timeout"}

\* C29: the first request of a fetchAll is for the starting path with the
\* payload limit = PageLimit, offset = 0, and each later request has the
\* empty payload.
C29_Payloads ==
    \A i \in 1..Len(requests) :
        IF i = 1
        THEN requests[i] = [path |-> StartPath(Kinds[cur]),
                            body |-> [limit |-> PageLimit, offset |-> 0]]
        ELSE requests[i].body = EmptyBody

C29_Witness ==
    /\ Len(requests) = 3
    /\ requests[1].body = [limit |-> PageLimit, offset |-> 0]
    /\ requests[2] = [path |-> Page2Path, body |-> EmptyBody]
    /\ requests[3] = [path |-> Page3Path, body |-> EmptyBody]

\* ------------------------------------------------------ document sample claim
\* The (document id, collection id) pairs of the document list.
Pairs == {Pair(Docs[i]) : i \in 1..Len(Docs)}

\* C30: a finished cycle with a non-empty document list has sent a
\* documents total equal to the number of distinct (document id, collection
\* id) pairs of the list, and for each pair exactly one sample of each of
\* the five per-document families.
C30_DocumentSamples ==
    (Done /\ Docs # <<>>) =>
        /\ CopiesIn(Sample("outline_documents_total", <<>>,
                           Cardinality(Pairs)), ch) = 1
        /\ NamedCount("outline_documents_total") = 1
        /\ \A pair \in Pairs, name \in DocumentFamilyNames :
              Copies(ch, {x \in BagToSet(ch) :
                             x.name = name /\ x.labels = pair}) = 1

\* ----------------------------------------------------- shared state claims
\* A step of the Collect call of g.
StepOf(g) == collects'.of[g] # collects.of[g]

\* C21: a step of one Collect call changes no value that another call has
\* written and will read, the error counter aside.
C21_OwnedByCycle ==
    [][\A g, h \in Scrapers :
          (g # h /\ StepOf(g) /\ collects.of[h].at = "set") =>
              scrapeDurationSeconds' = scrapeDurationSeconds]_vars

RECURSIVE FailedBy(_)
FailedBy(scrapers) ==
    IF scrapers = {} THEN 0
    ELSE LET g == CHOOSE x \in scrapers : TRUE
         IN collects.of[g].failed + FailedBy(scrapers \ {g})

\* C22: the error counter is the number of fetches that have failed in all
\* the Collect calls, whatever their interleaving.
C22_NoLostIncrement == scrapeErrorsTotal = FailedBy(Scrapers)

\* Two calls that overlapped (one sent the duration of the other) have
\* finished, each with three failed fetches.
C22_Witness ==
    /\ \A g \in Scrapers :
          collects.of[g].at = "done" /\ collects.of[g].failed = Len(Kinds)
    /\ \E g \in Scrapers : collects.of[g].sent # collects.of[g].elapsed
    /\ scrapeErrorsTotal = 2 * Len(Kinds)

\* ---------------------------------------------------------------------- main
\* An environment variable that is not set.
Unset == <<"unset">>

getEnv(value, fallback) == IF value = Unset THEN fallback ELSE value

\* getBool of a variable that is unset or has a value in lower case.
getBool(value, fallback) ==
    IF value \in {<<"true">>, <<"1">>, <<"t">>, <<"yes">>, <<"y">>} THEN TRUE
    ELSE IF value \in {<<"false">>, <<"0">>, <<"f">>, <<"no">>, <<"n">>} THEN FALSE
    ELSE fallback

\* The process when main begins.
InitMain ==
    /\ pc = "start"
    /\ config = [OutlineAPIKey |-> <<>>, Debug |-> FALSE]
    /\ cur = 0
    /\ success = TRUE
    /\ err = Nil
    /\ results = NoResults
    /\ fetched = NoResults
    /\ scrapeErrorsTotal = 0
    /\ scrapeDurationSeconds = 0
    /\ fa = NoFetchAll
    /\ ft = NoFetch
    /\ ch = EmptyBag
    /\ requests = <<>>
    /\ pages = <<>>
    /\ call = NoCall
    /\ last = NoOutcome
    /\ events = <<>>
    /\ failedFetches = 0
    /\ errorsAtStart = 0
    /\ collects = NoCollects
    /\ logged = <<>>
    /\ server = SmallServer

\* Mutant of Main: the key is not tested.
MainUnchecked(env) ==
    /\ pc = "start"
    /\ config' = [OutlineAPIKey |-> getEnv(env, <<>>),
                  Debug |-> getBool(Unset, FALSE)]
    /\ pc' = "idle"
    /\ UNCHANGED <<cur, success, err, results, scrapeErrorsTotal,
                   scrapeDurationSeconds, fa, ft, ch, server, requests, pages,
                   call, last, events, failedFetches, errorsAtStart, fetched,
                   collects, logged>>

\* main with OUTLINE_API_KEY = env: log.Fatal when the key is empty, else
\* the exporter is registered and the server listens ("idle").
Main(env) ==
    /\ pc = "start"
    /\ config' = [OutlineAPIKey |-> getEnv(env, <<>>),
                  Debug |-> getBool(Unset, FALSE)]
    /\ pc' = IF config'.OutlineAPIKey = <<>> THEN "exited" ELSE "idle"
    /\ UNCHANGED <<cur, success, err, results, scrapeErrorsTotal,
                   scrapeDurationSeconds, fa, ft, ch, server, requests, pages,
                   call, last, events, failedFetches, errorsAtStart, fetched,
                   collects, logged>>

NextMain ==
    \/ \E env \in {Unset, <<>>, <<"k">>} : Main(env)
    \/ Next

SpecMain == InitMain /\ [][NextMain]_vars

\* C24: a process whose API key is unset or empty has exited when main is
\* over: it serves no scrape, has run no cycle and has sent no request.
C24_FatalWithoutKey ==
    /\ (pc # "start" /\ config.OutlineAPIKey = <<>>) => pc = "exited"
    /\ pc = "exited" =>
          /\ cur = 0
          /\ events = <<>>
          /\ requests = <<>>
          /\ ch = EmptyBag
          /\ ~ENABLED StartCollect

C24_Witness == pc = "exited" /\ config.OutlineAPIKey = <<>>

\* ------------------------------------------------------- persistence claim
\* The entity samples the lists call for.
EntitySamples(lists) ==
    CollectionSamples(lists["collections"], lists["documents"])
    (+) DocumentSamples(lists["documents"])
    (+) UserSamples(lists["users"])

EntityFamilyNames == UNION {KindFamilies(Kinds[k]) : k \in 1..Len(Kinds)}

\* C23: the entity samples a finished cycle has sent are those that the
\* items of the pages decoded in this cycle call for, and each per-entity
\* sample has the id of an item of these pages.
C23_NothingPersists ==
    Done =>
        /\ \A x \in BagToSet(ch) \cup BagToSet(EntitySamples(fetched)) :
              x.name \in EntityFamilyNames =>
                  CopiesIn(x, ch) = CopiesIn(x, EntitySamples(fetched))
        /\ \A x \in BagToSet(ch) :
              x.labels # <<>> =>
                  \E k \in 1..Len(Kinds) :
                      /\ x.name \in KindFamilies(Kinds[k])
                      /\ \E i \in 1..Len(fetched[Kinds[k]]) :
                            fetched[Kinds[k]][i].ID = x.labels[1]

\* A cycle without failure that follows a cycle in which a fetch failed.
C23_Witness ==
    /\ Done
    /\ errorsAtStart = 1
    /\ FailedKinds = {}
    /\ \A k \in 1..Len(Kinds) : Len(fetched[Kinds[k]]) = PageLimit
    /\ KindCount("collections") = 1 + 2 * PageLimit
    /\ KindCount("users") = 1 + 2 * PageLimit
\* ------------------------------------------------ duplicate-warning claim
\* The number of fetched documents beyond the first of each (document id,
\* collection id) pair.
Duplicates == Len(Docs) - Cardinality(Pairs)

\* The duplicate-documents warnings among the lines logged.
Warnings == SelectSeq(logged, LAMBDA line : line[1] = "Warning:")

\* C31: a cycle logs a duplicate-documents warning exactly when the number
\* of fetched documents differs from the number of distinct (document id,
\* collection id) pairs among them, the warning reports the difference, and
\* duplicates neither increment the error counter nor change up from 1.
C31_DuplicateWarning ==
    Done =>
        /\ (Warnings # <<>>) <=> (Duplicates # 0)
        /\ Warnings # <<>> =>
              Warnings = <<<<"Warning:", ToString(Duplicates), "duplicate",
                             "documents">>>>
        /\ CycleFailures = 0 =>
              /\ scrapeErrorsTotal = errorsAtStart
              /\ Copies(ch, {Sample("outline_up", <<>>, 1)}) = 1

\* ------------------------------------------------------ failing-stage claim
\* The failures the latest attempt can have been: those of its stage, cause
\* and status.
LastFailures ==
    {out \in Failures : /\ out.stage = last.stage
                        /\ out.cause = last.cause
                        /\ out.status = last.status}

\* The words an error has before the words of the underlying cause.
Annotation(e, out) == SubSeq(e, 1, Len(e) - Len(out.text))

\* e ends with the words of the underlying cause of out.
Wraps(e, out) ==
    /\ Len(e) >= Len(out.text)
    /\ SubSeq(e, Len(e) - Len(out.text) + 1, Len(e)) = out.text

\* C32: the failure of a page call whose attempt failed at some stage (the
\* request, the status, the reading of the body, the decoding) ends with
\* the underlying cause, has before it an annotation that names the stage,
\* and that annotation is not the one of a failure of any other stage.
C32_StageAnnotated ==
    (Returned /\ err # Nil) =>
        \E out \in LastFailures :
            /\ Wraps(FetchError, out)
            /\ Annotation(FetchError, out) # <<>>
            /\ \A other \in Failures :
                  other.stage # out.stage =>
                      Annotation(doFetch(other), other)
                          # Annotation(FetchError, out)

\* -------------------------------------------------------- retried requests
\* The cycles of an exporter started with DEBUG=true, whose log shows the
\* attempts that were retried, against a server of full pages with one
\* continuation path.
TwoPageServer == [sizes |-> {PageLimit}, paths |-> {EmptyPath, Page2Path}]

InitDebug ==
    /\ newExporter([OutlineAPIKey |-> <<"k">>, Debug |-> TRUE])
    /\ server = TwoPageServer

SpecDebug == InitDebug /\ [][NextFirst]_vars

\* The number of "Retryable error" lines among lines.
RetryLines(lines) == Len(SelectSeq(lines, LAMBDA line : line[1] = "Retryable"))

\* C33: a cycle all of whose fetches succeeded, whatever attempts were
\* retried on the way, has as entity lists the items of the decoded pages,
\* once each, sends up = 1 and leaves the error counter as it was; and
\* after a successful attempt the fetch that runs, if any, is a new page
\* request that has made no attempt yet.
C33_RetriesInvisible ==
    /\ (Done /\ CycleFailures = 0) =>
          /\ results = fetched
          /\ NamedCount("outline_up") = 1
          /\ Copies(ch, {Sample("outline_up", <<>>, 1)}) = 1
          /\ scrapeErrorsTotal = errorsAtStart
    /\ (pc = "fetching" /\ last.stage = "ok") =>
          /\ ft.attempt = 0
          /\ call = NoCall

\* The users request of a cycle without failed fetch succeeded at its
\* fourth attempt.
C33_Witness ==
    /\ Done
    /\ CycleFailures = 0
    /\ Len(requests) = 1
    /\ RetryLines(logged) = maxRetries
    /\ results["users"] # <<>>

\* --------------------------------------------------- retry-budget claim
\* The places in the log of the lines that begin a page request.
Starts == {k \in 1..Len(logged) : logged[k][1] \in {"Fetch", "Next:"}}

\* The number of attempts retried for the page request that begins at k:
\* the "Retryable error" lines up to the next request.
RetriesAfter(k) ==
    Cardinality({j \in (k + 1)..Len(logged) :
                    /\ logged[j][1] = "Retryable"
                    /\ \A m \in (k + 1)..j : m \notin Starts})

\* The attempts made by the running fetchAll: those retried, those that
\* decoded a page and the one whose failure fetch returned.
AttemptsMade ==
    RetryLines(logged) + Len(pages) + (IF Returned /\ err # Nil THEN 1 ELSE 0)

\* C34: in a fetchAll invocation each page request has at most 3 retried
\* attempts of its own, its attempt counter counts its own retried attempts
\* only (it starts at 0 whatever earlier requests and earlier kinds used),
\* and the invocation makes at most 4 attempts per page it requests.
C34_BudgetPerRequest ==
    pc \in {"fetching", "returned"} =>
        /\ Cardinality(Starts) = Len(requests)
        /\ \A k \in Starts : RetriesAfter(k) <= maxRetries
        /\ pc = "fetching" =>
              \A k \in Starts :
                  (\A m \in Starts : m <= k) => ft.attempt = RetriesAfter(k)
        /\ AttemptsMade <= (maxRetries + 1) * Len(requests)

\* The documents fetch has returned two pages, each decoded at the fourth
\* attempt of its request.
C34_Witness ==
    /\ Returned
    /\ cur = 2
    /\ err = Nil
    /\ Len(requests) = 2
    /\ \A k \in Starts : RetriesAfter(k) = maxRetries
    /\ AttemptsMade = (maxRetries + 1) * 2

\* ------------------------------------------------- first-request claim
\* C35: a fetchAll whose request for the starting path failed, after the
\* attempts fetch made for it, returns no item with the failure, reported
\* as that of the first page, and has made no other request than the one
\* for the starting path.
C35_FirstPageFailure ==
    (Returned /\ err # Nil /\ Len(pages) = 0) =>
        /\ Result = <<>>
        /\ Len(err) > 3
        /\ SubSeq(err, 1, 3) = <<"fetch", "first", "page:">>
        /\ requests = <<[path |-> StartPath(Kinds[cur]), body |-> FirstBody]>>
        /\ ft = NoFetch

\* The request for the starting path failed at each of its four attempts.
C35_Witness ==
    /\ Returned
    /\ err # Nil
    /\ Len(pages) = 0
    /\ Len(call.delays) = maxRetries + 1
    /\ Result = <<>>

\* ------------------------------------------------- distinct-labels claim
\* The samples sent on ch for the families of kind that have labels.
LabelledSamples(kind) ==
    {x \in BagToSet(ch) : x.name \in KindFamilies(kind) /\ x.labels # <<>>}

\* C36: among the samples a cycle has sent, no two collection samples of
\* one family have the same (collection_id, collection_name) labels and no
\* two user samples of one family the same (user_id, user_name) labels.
C36_DistinctLabels ==
    Done =>
        \A kind \in {"collections", "users"} :
            \A x, y \in LabelledSamples(kind) :
                (x.name = y.name /\ x.labels = y.labels) =>
                    /\ x = y
                    /\ CopiesIn(x, ch) = 1

====
